---- MODULE Spec2Model ----
(***************************************************************************)
(* Model of analysis/app.py: the /score-token request handler, the factor  *)
(* scorers, the regulatory text scorer and the predict_price Celery task.  *)
(* Python numbers are modelled as exact rationals [n, d] in lowest terms.  *)
(***************************************************************************)
EXTENDS Integers, Sequences, FiniteSets, TLC

(***************************************************************************)
(* Exact rational arithmetic                                               *)
(***************************************************************************)
Abs(x) == IF x < 0 THEN -x ELSE x

RECURSIVE Gcd(_, _)
Gcd(a, b) == IF b = 0 THEN a ELSE Gcd(b, a % b)

\* n/d in lowest terms with a positive denominator (d # 0)
R(n, d) ==
    LET g == Gcd(Abs(n), Abs(d))
        s == IF d < 0 THEN -1 ELSE 1
    IN [n |-> (s * n) \div g, d |-> (s * d) \div g]

RInt(k) == [n |-> k, d |-> 1]
RAdd(a, b) == R(a.n * b.d + b.n * a.d, a.d * b.d)
RMul(a, b) == R(a.n * b.n, a.d * b.d)
RDiv(a, b) == R(a.n * b.d, a.d * b.n)
RLt(a, b) == a.n * b.d < b.n * a.d
RLe(a, b) == a.n * b.d <= b.n * a.d
RGt(a, b) == RLt(b, a)
RMin(a, b) == IF RLe(a, b) THEN a ELSE b
RMax(a, b) == IF RLe(a, b) THEN b ELSE a

\* vals[lo] + ... + vals[hi], summed by halves
RECURSIVE SumRange(_, _, _)
SumRange(vals, lo, hi) ==
    IF lo > hi THEN RInt(0)
    ELSE IF lo = hi THEN vals[lo]
    ELSE LET mid == (lo + hi) \div 2
             left == SumRange(vals, lo, mid)
             right == SumRange(vals, mid + 1, hi)
         IN RAdd(left, right)

\* the keys a dict of the model can have, in a fixed order: the 14 factor
\* names and one name that is no factor
Keys ==
    << "macro", "sentiment", "crypto_specific", "on_chain_tech",
       "correlations_geopolitics", "ai", "regulatory", "esg_whales",
       "depin_gaming_privacy", "quantum", "cbdc", "restaking_defi",
       "creator_social", "cross_chain", "liquidity" >>

\* sum(d.values()): the sum of the values of dict d
RSum(d) ==
    SumRange([i \in 1..Len(Keys) |->
                 IF Keys[i] \in DOMAIN d THEN d[Keys[i]] ELSE RInt(0)],
             1, Len(Keys))

\* the empty dict
EmptyDict == [k \in {} |-> RInt(0)]

(***************************************************************************)
(* Bounds of the model                                                     *)
(***************************************************************************)
\* CPI observations range over 0..MaxCpi
MaxCpi == 6
\* a CPI sequence holds at most MaxObs observations
MaxObs == 2
\* the generator behind np.random.uniform has RngModulus states
RngModulus == 2

(***************************************************************************)
(* Program constants                                                       *)
(***************************************************************************)
\* the 14 factors, in the order the scores dict literal evaluates them
Factors ==
    << "macro", "sentiment", "crypto_specific", "on_chain_tech",
       "correlations_geopolitics", "ai", "regulatory", "esg_whales",
       "depin_gaming_privacy", "quantum", "cbdc", "restaking_defi",
       "creator_social", "cross_chain" >>

FactorSet == {Factors[i] : i \in 1..Len(Factors)}

\* the eleven placeholder scorers (np.random.uniform(-2, 2))
StubFactors == FactorSet \ {"macro", "sentiment", "regulatory"}

DEFAULT_WEIGHTS ==
    [f \in FactorSet |->
        CASE f = "macro" -> R(35, 100)
          [] f = "crypto_specific" -> R(25, 100)
          [] f = "sentiment" -> R(20, 100)
          [] f \in {"ai", "regulatory"} -> R(15, 100)
          [] f \in {"on_chain_tech", "correlations_geopolitics", "esg_whales",
                    "cbdc", "restaking_defi"} -> R(10, 100)
          [] OTHER -> R(5, 100)]

\* the fallback price target
FALLBACK == RInt(1000)

\* predict_price looks at the last WINDOW prices
WINDOW == 30

(***************************************************************************)
(* Results of a call: a returned value or a raised exception               *)
(***************************************************************************)
Ret(v) == [t |-> "ret", v |-> v, exc |-> "none"]
Raise(e) == [t |-> "raise", v |-> RInt(0), exc |-> e]

\* try: body / except <types>: return dflt
Except(res, types, dflt) ==
    IF res.t = "raise" /\ res.exc \in types THEN Ret(dflt) ELSE res

(***************************************************************************)
(* Python values of the upstream feeds                                     *)
(***************************************************************************)
\* one CPI observation: {'value': n}, {} (nokey), {'value': 'n/a'} (badstr),
\* {'value': None} (null), or a bare number instead of a dict (notdict)
ObsKinds == {"num", "nokey", "badstr", "null", "notdict"}
Obs(kind, n) == [kind |-> kind, n |-> n]
AllObs == {Obs("num", n) : n \in 0..MaxCpi}
            \cup {Obs(k, 0) : k \in ObsKinds \ {"num"}}

RECURSIVE SeqsUpTo(_, _)
SeqsUpTo(S, n) ==
    IF n = 0 THEN {<< >>}
    ELSE LET shorter == SeqsUpTo(S, n - 1)
         IN shorter \cup {Append(q, x) : q \in {p \in shorter : Len(p) = n - 1}, x \in S}

\* macro_data: None, a non-dict JSON value, or a dict with or without 'cpi';
\* 'cpi' is null or a list of observations
Macro(kind, has_cpi, cpi_null, cpi) ==
    [kind |-> kind, has_cpi |-> has_cpi, cpi_null |-> cpi_null, cpi |-> cpi]
MacroNone == Macro("None", FALSE, FALSE, << >>)
MacroNotDict == Macro("list", FALSE, FALSE, << >>)
MacroNoCpi == Macro("dict", FALSE, FALSE, << >>)
MacroCpiNull == Macro("dict", TRUE, TRUE, << >>)
MacroCpi(cpi) == Macro("dict", TRUE, FALSE, cpi)
AllMacroSnapshots ==
    {MacroNone, MacroNotDict, MacroNoCpi, MacroCpiNull}
        \cup {MacroCpi(c) : c \in SeqsUpTo(AllObs, MaxObs)}

\* sentiment_data: None, a non-dict JSON value, or a dict; 'fearGreed' is
\* missing, a dict, or not a dict; its 'value' is missing, a number, an
\* unparsable string or null
Sentiment(kind, fg, val, n) == [kind |-> kind, fg |-> fg, val |-> val, n |-> n]
SentimentNone == Sentiment("None", "missing", "missing", 0)
SentimentNotDict == Sentiment("list", "missing", "missing", 0)
SentimentNoFG == Sentiment("dict", "missing", "missing", 0)
SentimentFGNotDict == Sentiment("dict", "notdict", "missing", 0)
SentimentNoValue == Sentiment("dict", "dict", "missing", 0)
SentimentBadStr == Sentiment("dict", "dict", "badstr", 0)
SentimentNull == Sentiment("dict", "dict", "null", 0)
SentimentValue(n) == Sentiment("dict", "dict", "num", n)

(***************************************************************************)
(* calculate_macro_score, calculate_sentiment_score and the stubs          *)
(***************************************************************************)
\* float(macro_data['cpi'][-1]['value']) if macro_data['cpi'] else 0
LatestCpi(md) ==
    IF md.cpi_null \/ Len(md.cpi) = 0 THEN Ret(RInt(0))
    ELSE LET last == md.cpi[Len(md.cpi)]
         IN CASE last.kind = "notdict" -> Raise("TypeError")
              [] last.kind = "nokey" -> Raise("KeyError")
              [] last.kind = "badstr" -> Raise("ValueError")
              [] last.kind = "null" -> Raise("TypeError")
              [] OTHER -> Ret(RInt(last.n))

\* the try body of calculate_macro_score
MacroBody(md) ==
    IF md.kind # "dict" \/ ~md.has_cpi THEN Ret(RInt(0))
    ELSE LET latest_cpi == LatestCpi(md)
         IN IF latest_cpi.t = "raise" THEN latest_cpi
            ELSE IF RGt(latest_cpi.v, RInt(5)) THEN Ret(RInt(-2))
            ELSE IF RLt(latest_cpi.v, RInt(2)) THEN Ret(RInt(2))
            ELSE Ret(RInt(0))

\* the exceptions calculate_macro_score handles
MacroCaught == {"IndexError", "ValueError", "KeyError"}

calculate_macro_score(md) == Except(MacroBody(md), MacroCaught, RInt(0))

\* the try body of calculate_sentiment_score
SentimentBody(sd) ==
    IF sd.kind # "dict" THEN Ret(RInt(0))
    ELSE IF sd.fg = "notdict" THEN Raise("AttributeError")
    ELSE IF sd.fg = "missing" \/ sd.val = "missing"
         THEN Ret(RDiv(RInt(50 - 50), RInt(25)))
    ELSE IF sd.val = "badstr" THEN Raise("ValueError")
    ELSE IF sd.val = "null" THEN Raise("TypeError")
    ELSE Ret(RDiv(RInt(sd.n - 50), RInt(25)))

\* the exceptions calculate_sentiment_score handles
SentimentCaught == {"ValueError", "KeyError"}

calculate_sentiment_score(sd) == Except(SentimentBody(sd), SentimentCaught, RInt(0))

\* np.random.uniform(-2, 2) read off the generator state r in 0..RngModulus-1
Uniform(r) == R(4 * r - 2 * (RngModulus - 1), RngModulus - 1)

\* the generator state after one draw
RngNext(r) == (r + 1) % RngModulus


(***************************************************************************)
(* calculate_regulatory_score: keyword scoring of filings and news         *)
(* Texts are sequences of one-character strings.                           *)
(***************************************************************************)
UpperCase == <<"A", "B", "C", "D", "E", "F", "G", "H", "I", "J", "K", "L", "M", "N", "O", "P", "Q", "R", "S", "T", "U", "V", "W", "X", "Y", "Z">>
LowerCase == <<"a", "b", "c", "d", "e", "f", "g", "h", "i", "j", "k", "l", "m", "n", "o", "p", "q", "r", "s", "t", "u", "v", "w", "x", "y", "z">>

\* a case-sensitive keyword match: the text is not lowered
Lower_Identity(text) == text

\* str.lower() on one character and on a text
LowerChar(c) ==
    IF \E i \in 1..Len(UpperCase) : UpperCase[i] = c
    THEN LowerCase[CHOOSE i \in 1..Len(UpperCase) : UpperCase[i] = c]
    ELSE c
Lower(text) == [i \in 1..Len(text) |-> LowerChar(text[i])]

\* text.count(kw) from position i: non-overlapping occurrences, left to right
RECURSIVE CountFrom(_, _, _)
CountFrom(text, kw, i) ==
    IF i + Len(kw) - 1 > Len(text) THEN 0
    ELSE IF SubSeq(text, i, i + Len(kw) - 1) = kw
         THEN 1 + CountFrom(text, kw, i + Len(kw))
         ELSE CountFrom(text, kw, i + 1)
Count(text, kw) == CountFrom(text, kw, 1)

positive_keywords ==
    << <<"a", "p", "p", "r", "o", "v", "a", "l">>,
       <<"c", "l", "a", "r", "i", "t", "y">>,
       <<"f", "a", "v", "o", "r", "a", "b", "l", "e">>,
       <<"a", "d", "o", "p", "t", "i", "o", "n">>,
       <<"e", "t", "f">>,
       <<"c", "r", "y", "p", "t", "o">>,
       <<"b", "l", "o", "c", "k", "c", "h", "a", "i", "n">>,
       <<"s", "t", "a", "b", "l", "e", "c", "o", "i", "n">>,
       <<"d", "i", "g", "i", "t", "a", "l", " ", "s", "e", "c", "u", "r", "i", "t", "i", "e", "s">> >>
negative_keywords ==
    << <<"e", "n", "f", "o", "r", "c", "e", "m", "e", "n", "t">>,
       <<"l", "a", "w", "s", "u", "i", "t">>,
       <<"c", "l", "a", "m", "p", "d", "o", "w", "n">>,
       <<"v", "i", "o", "l", "a", "t", "i", "o", "n">>,
       <<"p", "r", "o", "b", "e">> >>
\* the forms weighted 1.5
WeightedForms ==
    << <<"8", "-", "k">>,
       <<"1", "0", "-", "q">>,
       <<"1", "0", "-", "k">> >>

\* sum(text.lower().count(kw) for kw in kws)
RECURSIVE KeywordHitsFrom(_, _, _)
KeywordHitsFrom(text, kws, i) ==
    IF i > Len(kws) THEN 0
    ELSE Count(Lower(text), kws[i]) + KeywordHitsFrom(text, kws, i + 1)
KeywordHits(text, kws) == KeywordHitsFrom(text, kws, 1)

\* (pos_count - neg_count) / (pos_count + neg_count + 1)
TextScore(text) ==
    LET pos_count == KeywordHits(text, positive_keywords)
        neg_count == KeywordHits(text, negative_keywords)
    IN R(pos_count - neg_count, pos_count + neg_count + 1)

\* 1.5 if form in ['8-k', '10-q', '10-k'] else 1.0
FormWeight(form) ==
    IF \E i \in 1..Len(WeightedForms) : WeightedForms[i] = Lower(form)
    THEN R(3, 2) ELSE RInt(1)

FilingScore(filing) == RMul(FormWeight(filing.form), TextScore(filing.description))

\* a filing is a dict with description and form, or not a dict at all;
\* an article is a dict with title and description, or not a dict
Filing(kind, description, form) ==
    [kind |-> kind, description |-> description, form |-> form]
Article(kind, title, description) ==
    [kind |-> kind, title |-> title, description |-> description]

\* the running total, the document count and whether the loop was left by
\* an exception
Tally(total, count, fault) == [total |-> total, count |-> count, fault |-> fault]

\* the loop over the filings (all companies, in order); an exception ends
\* the loop and keeps what was added so far
RECURSIVE ScoreFilings(_, _, _)
ScoreFilings(filings, i, acc) ==
    IF i > Len(filings) THEN acc
    ELSE IF filings[i].kind # "dict" THEN Tally(acc.total, acc.count, TRUE)
    ELSE IF Len(filings[i].description) = 0 THEN ScoreFilings(filings, i + 1, acc)
    ELSE ScoreFilings(filings, i + 1,
            Tally(RAdd(acc.total, FilingScore(filings[i])), acc.count + 1, acc.fault))

\* the loop over the news articles; text = title + ' ' + description
RECURSIVE ScoreArticles(_, _, _)
ScoreArticles(articles, i, acc) ==
    IF i > Len(articles) THEN acc
    ELSE IF articles[i].kind # "dict" THEN Tally(acc.total, acc.count, TRUE)
    ELSE LET text == articles[i].title \o << " " >> \o articles[i].description
         IN ScoreArticles(articles, i + 1,
                Tally(RAdd(acc.total, TextScore(text)), acc.count + 1, acc.fault))

\* the result of fetch_from_backend for the two regulatory endpoints:
\* None, or the filings of all companies / the list of articles
Feed(kind, docs) == [kind |-> kind, docs |-> docs]
FeedNone == Feed("None", << >>)
FeedOf(docs) == Feed("data", docs)
\* Python truth value of a feed
Truthy(feed) == feed.kind = "data" /\ Len(feed.docs) > 0

\* total and count over both halves of the corpus
RegulatoryTally(regulatory_data, news_data) ==
    LET afterFilings ==
            IF Truthy(regulatory_data)
            THEN ScoreFilings(regulatory_data.docs, 1, Tally(RInt(0), 0, FALSE))
            ELSE Tally(RInt(0), 0, FALSE)
        filingFault == afterFilings.fault
        start == Tally(afterFilings.total, afterFilings.count, FALSE)
        afterNews ==
            IF Truthy(news_data) THEN ScoreArticles(news_data.docs, 1, start) ELSE start
    IN Tally(afterNews.total, afterNews.count, filingFault \/ afterNews.fault)

\* calculate_regulatory_score on the two fetched feeds
calculate_regulatory_score(regulatory_data, news_data) ==
    IF ~Truthy(regulatory_data) /\ ~Truthy(news_data) THEN RInt(0)
    ELSE LET tally == RegulatoryTally(regulatory_data, news_data)
         IN IF tally.count > 0
            THEN RMul(RDiv(tally.total, RInt(tally.count)), RInt(2))
            ELSE RInt(0)


(***************************************************************************)
(* fetch_from_backend, fetch_historical_prices                             *)
(***************************************************************************)
\* what the upstream answers: a 2xx response with a body, a non-2xx
\* response (which has a body too), or a transport fault (connection
\* error, timeout: no body)
FetchKinds == {"ok", "http_error", "transport"}
Upstream(kind, body) == [kind |-> kind, body |-> body]
Failed(up) == up.kind # "ok"

\* fetch_from_backend without raise_for_status: the body of a non-2xx
\* response is returned as data
fetch_from_backend_NoStatusCheck(up, none) ==
    IF up.kind = "transport" THEN none ELSE up.body

\* requests.get + raise_for_status + json(); RequestException -> None
fetch_from_backend(up, none) == IF up.kind = "ok" THEN up.body ELSE none

\* fetch_historical_prices: the price column of the frame, empty when the
\* API key is missing, the request fails or the body holds no prices
fetch_historical_prices(has_key, up) ==
    IF ~has_key THEN << >>
    ELSE IF up.kind # "ok" THEN << >>
    ELSE up.body

(***************************************************************************)
(* predict_price (the Celery task)                                         *)
(***************************************************************************)
\* a variant of TailN that keeps the whole column
TailN_NoWindow(prices, k) ==
    prices

\* df['price'].tail(30)
TailN(prices, k) ==
    IF Len(prices) <= k THEN prices
    ELSE SubSeq(prices, Len(prices) - k + 1, Len(prices))

\* np.linspace(0.5, 1.5, m)[i], i in 1..m
Linspace(m, i) ==
    IF m = 1 THEN R(1, 2) ELSE RAdd(R(1, 2), R(i - 1, m - 1))

\* np.average(recent_prices, weights = linspace / linspace.sum())
WeightedAverage(recent) ==
    LET m == Len(recent)
        raw == [i \in 1..m |-> Linspace(m, i)]
        rawsum == SumRange(raw, 1, m)
        norm == [i \in 1..m |-> RDiv(raw[i], rawsum)]
        terms == [i \in 1..m |-> RMul(RInt(recent[i]), norm[i])]
    IN RDiv(SumRange(terms, 1, m), SumRange(norm, 1, m))

predict_price(historical_list, horizon, md, sd) ==
    IF Len(historical_list) = 0 THEN Raise("ValueError")
    ELSE LET base_prediction == WeightedAverage(TailN(historical_list, WINDOW))
             macro == calculate_macro_score(md)
             sentiment == calculate_sentiment_score(sd)
         IN IF RLe(base_prediction, RInt(0)) THEN Raise("ValueError")
            ELSE IF macro.t = "raise" THEN macro
            ELSE IF sentiment.t = "raise" THEN sentiment
            ELSE LET macro_factor == RAdd(RInt(1), RDiv(macro.v, RInt(20)))
                     sentiment_factor == RAdd(RInt(1), RDiv(sentiment.v, RInt(10)))
                 IN Ret(RMul(RMul(base_prediction, macro_factor), sentiment_factor))

(***************************************************************************)
(* score_token: weights, aggregation, response                             *)
(***************************************************************************)
\* sum(weights.values())
TotalWeight(weights) == RSum(weights)

\* the weights divided by their number instead of their sum
Normalize_ByCount(weights) ==
    [k \in DOMAIN weights |-> RDiv(weights[k], RInt(Cardinality(DOMAIN weights)))]

\* {k: v / total_weight for k, v in weights.items()}
Normalize(weights) ==
    [k \in DOMAIN weights |-> RDiv(weights[k], TotalWeight(weights))]

\* d.get(k, 0)
Get(d, k) == IF k \in DOMAIN d THEN d[k] ELSE RInt(0)

\* sum(scores.get(f, 0) * normalized_weights.get(f, 0) for f in scores)
Aggregated(sc, nw) ==
    RSum([f \in DOMAIN sc |-> RMul(Get(sc, f), Get(nw, f))])

\* the risk score without its upper clamp
RiskScore_NoUpperClamp(agg) == RMax(RMul(agg, R(5, 2)), RInt(0))

\* min(max(aggregated_score * 2.5, 0), 10)
RiskScore(agg) == RMin(RMax(RMul(agg, R(5, 2)), RInt(0)), RInt(10))

\* the thresholds taken inclusively
Recommendation_Inclusive(agg) ==
    IF RLe(R(8, 10), agg) THEN "buy"
    ELSE IF RLe(RInt(0), agg) THEN "monitor"
    ELSE "avoid"

\* 'buy' if aggregated_score > 0.8 else 'monitor' if aggregated_score > 0 else 'avoid'
Recommendation(agg) ==
    IF RGt(agg, R(8, 10)) THEN "buy"
    ELSE IF RGt(agg, RInt(0)) THEN "monitor"
    ELSE "avoid"

\* task.get(timeout=10): the task's value, its failure, or a timeout
TaskRec(state, result) == [state |-> state, result |-> result]
NoTask == TaskRec("none", RInt(0))
TaskGet(tk) ==
    CASE tk.state = "success" -> Ret(tk.result)
      [] tk.state = "failure" -> Raise("TaskError")
      [] OTHER -> Raise("TimeoutError")

\* the forecast stage with only the timeout handled
ForecastStage_TimeoutOnly(got) ==
    IF got.t = "raise" /\ got.exc = "TimeoutError" THEN Ret(FALLBACK)
    ELSE IF got.t = "raise" THEN got
    ELSE IF RLe(got.v, RInt(0)) THEN Ret(FALLBACK)
    ELSE Ret(got.v)

\* the forecast stage without the check of the received value
ForecastStage_NoPositiveCheck(got) ==
    IF got.t = "raise" THEN Ret(FALLBACK) ELSE Ret(got.v)

\* lines 151-161: the value received, replaced by the fallback when it is
\* not positive, on a timeout and on any other exception
ForecastStage(got) ==
    IF got.t = "raise" THEN Ret(FALLBACK)
    ELSE IF RLe(got.v, RInt(0)) THEN Ret(FALLBACK)
    ELSE Ret(got.v)

\* the JSON answers
Response(status, risk_score, recommendation, price_target, factor_scores, error) ==
    [status |-> status, risk_score |-> risk_score,
     recommendation |-> recommendation, price_target |-> price_target,
     factor_scores |-> factor_scores, error |-> error]
NoResponse == Response(0, RInt(0), "none", RInt(0), EmptyDict, "none")
ErrorResponse(status, error) ==
    Response(status, RInt(0), "none", RInt(0), EmptyDict, error)
SuccessResponse(agg, pred, sc) ==
    Response(200, RiskScore(agg), Recommendation(agg), pred, sc, "none")


(***************************************************************************)
(* The inputs a request meets                                              *)
(***************************************************************************)
\* the request body: data and horizon present or not, the token's id and
\* symbol non-empty or not, weights absent, a dict, or not a dict
Request(has_data, has_horizon, horizon, token_ok, weights_kind, weights) ==
    [has_data |-> has_data, has_horizon |-> has_horizon, horizon |-> horizon,
     token_ok |-> token_ok, weights_kind |-> weights_kind, weights |-> weights]

WeightsSentimentOnly == [f \in {"sentiment"} |-> RInt(1)]
WeightsMixed ==
    [f \in {"macro", "sentiment", "liquidity"} |->
        CASE f = "macro" -> RInt(2) [] f = "sentiment" -> RInt(-1) [] OTHER -> RInt(1)]
WeightsZeroSum ==
    [f \in {"macro", "sentiment"} |-> IF f = "macro" THEN RInt(1) ELSE RInt(-1)]

Requests ==
    { Request(FALSE, TRUE, "short", TRUE, "absent", EmptyDict),
      Request(TRUE, FALSE, "short", TRUE, "absent", EmptyDict),
      Request(TRUE, TRUE, "short", FALSE, "absent", EmptyDict),
      Request(TRUE, TRUE, "short", FALSE, "dict", WeightsZeroSum),
      Request(TRUE, TRUE, "short", TRUE, "notdict", EmptyDict),
      Request(TRUE, TRUE, "short", TRUE, "absent", EmptyDict),
      Request(TRUE, TRUE, "long", TRUE, "dict", EmptyDict),
      Request(TRUE, TRUE, "short", TRUE, "dict", WeightsZeroSum),
      Request(TRUE, TRUE, "long", TRUE, "dict", WeightsSentimentOnly),
      Request(TRUE, TRUE, "short", TRUE, "dict", WeightsMixed) }

\* bodies of /fetch-macro
MacroBodies ==
    {MacroNone, MacroCpi(<< >>)}
        \cup {MacroCpi(<< Obs("num", n) >>) : n \in {1, 3, MaxCpi}}
        \cup {MacroCpi(<< Obs("null", 0) >>)}

\* fear-greed values: inside 0..100 and far outside it
FearGreedValues == {-450, -200, -75, 50, 70, 300}

\* bodies of /fetch-sentiment
SentimentBodies ==
    {SentimentNone, SentimentNoFG, SentimentFGNotDict, SentimentBadStr, SentimentNull}
        \cup {SentimentValue(n) : n \in FearGreedValues}

EtfFiling ==
    Filing("dict", <<"E", "T", "F", " ", "a", "p", "p", "r", "o", "v", "a", "l", " ", "a", "n", "d", " ", "c", "l", "a", "r", "i", "t", "y">>,
           <<"1", "0", "-", "K">>)
NotAFiling == Filing("notdict", << >>, << >>)
ProbeArticle ==
    Article("dict", <<"S", "E", "C", " ", "l", "a", "w", "s", "u", "i", "t">>,
            <<"E", "n", "f", "o", "r", "c", "e", "m", "e", "n", "t", " ", "p", "r", "o", "b", "e", " ", "w", "i", "d", "e", "n", "s">>)

\* bodies of /fetch-standard-regulatory and /fetch-regulatory
FilingBodies == {FeedOf(<< EtfFiling >>), FeedOf(<< EtfFiling, NotAFiling >>)}
NewsBodies == {FeedOf(<< ProbeArticle >>)}

\* price columns of the market-data answer
PriceBodies == {<< >>, << 10, 20, 30 >>, << -10 >>}

(***************************************************************************)
(* State                                                                   *)
(***************************************************************************)
VARIABLES
    request,            \* the request body
    pc,                 \* where score_token stands
    normalized_weights, \* normalized_weights, once computed
    macro_data,         \* macro_data
    sentiment_data,     \* sentiment_data
    scores,             \* the factors scored so far
    fi,                 \* index of the next factor of the scores dict literal
    aggregated_score,   \* aggregated_score
    historical_prices,  \* the price column of historical_prices
    task,               \* the predict_price task: state and result
    prediction,         \* prediction
    response,           \* the response returned
    responses,          \* how many responses were returned
    rng,                \* the state of numpy's global generator
    fetch_failed,       \* history: the upstream fetches that failed
    faults,             \* history: the factors whose computation raised
    forecast,           \* history: how the forecast stage ended
    regulatory_data,    \* argument of a direct scorer call
    news_data,          \* argument of a direct scorer call
    result              \* result of a direct scorer call

vars ==
    << request, pc, normalized_weights, macro_data, sentiment_data, scores, fi,
       aggregated_score, historical_prices, task, prediction, response,
       responses, rng, fetch_failed, faults, forecast, regulatory_data,
       news_data, result >>

\* everything a request starts from
Fresh ==
    /\ normalized_weights = EmptyDict
    /\ macro_data = MacroNone
    /\ sentiment_data = SentimentNone
    /\ scores = EmptyDict
    /\ fi = 1
    /\ aggregated_score = RInt(0)
    /\ historical_prices = << >>
    /\ task = NoTask
    /\ prediction = RInt(0)
    /\ response = NoResponse
    /\ responses = 0
    /\ fetch_failed = {}
    /\ faults = {}
    /\ forecast = "none"
    /\ regulatory_data = FeedNone
    /\ news_data = FeedNone
    /\ result = Ret(RInt(0))

Init ==
    /\ request \in Requests
    /\ pc = "validate"
    /\ rng \in 0..(RngModulus - 1)
    /\ Fresh

\* return jsonify(...): the handler ends with this response
Return(resp) ==
    /\ response' = resp
    /\ responses' = responses + 1
    /\ pc' = "done"


(***************************************************************************)
(* score_token, step by step                                               *)
(***************************************************************************)
\* lines 67-70: data and horizon are required
Validate ==
    /\ pc = "validate"
    /\ IF request.has_data /\ request.has_horizon
       THEN /\ pc' = "weights"
            /\ UNCHANGED << response, responses >>
       ELSE Return(ErrorResponse(400, "data and horizon required"))
    /\ UNCHANGED << request, normalized_weights, macro_data, sentiment_data,
                    scores, fi, aggregated_score, historical_prices, task,
                    prediction, rng, fetch_failed, faults, forecast,
                    regulatory_data, news_data, result >>

\* data.get('weights', DEFAULT_WEIGHTS)
WeightsOf(req) == IF req.weights_kind = "absent" THEN DEFAULT_WEIGHTS ELSE req.weights

\* lines 74-83: the weights are summed, a zero sum is rejected, the
\* weights are normalized; anything raised here answers 500
ProcessWeights ==
    /\ pc = "weights"
    /\ IF request.weights_kind = "notdict"
       THEN /\ Return(ErrorResponse(500, "Error processing weights"))
            /\ UNCHANGED normalized_weights
       ELSE IF TotalWeight(WeightsOf(request)) = RInt(0)
       THEN /\ Return(ErrorResponse(400, "Invalid weights: sum must be non-zero"))
            /\ UNCHANGED normalized_weights
       ELSE /\ normalized_weights' = Normalize(WeightsOf(request))
            /\ pc' = "token"
            /\ UNCHANGED << response, responses >>
    /\ UNCHANGED << request, macro_data, sentiment_data, scores, fi,
                    aggregated_score, historical_prices, task, prediction, rng,
                    fetch_failed, faults, forecast, regulatory_data, news_data,
                    result >>

\* lines 86-88: the token needs id and symbol
ValidateToken ==
    /\ pc = "token"
    /\ IF request.token_ok
       THEN /\ pc' = "fetch_macro"
            /\ UNCHANGED << response, responses >>
       ELSE Return(ErrorResponse(400, "Invalid token data: id and symbol required"))
    /\ UNCHANGED << request, normalized_weights, macro_data, sentiment_data,
                    scores, fi, aggregated_score, historical_prices, task,
                    prediction, rng, fetch_failed, faults, forecast,
                    regulatory_data, news_data, result >>

\* lines 92-98: macro_data = fetch_from_backend('/fetch-macro')
FetchMacro ==
    /\ pc = "fetch_macro"
    /\ \E kind \in FetchKinds, body \in MacroBodies :
         LET up == Upstream(kind, body)
         IN /\ kind = "transport" => body = MacroNone
            /\ macro_data' = fetch_from_backend(up, MacroNone)
            /\ fetch_failed' = fetch_failed \cup (IF Failed(up) THEN {"macro"} ELSE {})
    /\ pc' = "fetch_sentiment"
    /\ UNCHANGED << request, normalized_weights, sentiment_data, scores, fi,
                    aggregated_score, historical_prices, task, prediction,
                    response, responses, rng, faults, forecast,
                    regulatory_data, news_data, result >>

\* lines 100-104: sentiment_data = fetch_from_backend('/fetch-sentiment...')
FetchSentiment ==
    /\ pc = "fetch_sentiment"
    /\ \E kind \in FetchKinds, body \in SentimentBodies :
         LET up == Upstream(kind, body)
         IN /\ kind = "transport" => body = SentimentNone
            /\ sentiment_data' = fetch_from_backend(up, SentimentNone)
            /\ fetch_failed' =
                 fetch_failed \cup (IF Failed(up) THEN {"sentiment"} ELSE {})
    /\ pc' = "score"
    /\ UNCHANGED << request, normalized_weights, macro_data, scores, fi,
                    aggregated_score, historical_prices, task, prediction,
                    response, responses, rng, faults, forecast,
                    regulatory_data, news_data, result >>

\* the handler of lines 126-128 without its return: the error is logged
\* and the aggregation goes on with the factors scored so far
Scored_FallsThrough(f, res) ==
    IF res.t = "ret"
    THEN /\ scores' = (f :> res.v) @@ scores
         /\ fi' = fi + 1
         /\ pc' = IF fi = Len(Factors) THEN "aggregate" ELSE "score"
         /\ UNCHANGED << response, responses >>
    ELSE /\ pc' = "aggregate"
         /\ UNCHANGED << scores, fi, response, responses >>

\* one entry of the scores dict literal (lines 109-128): the value is
\* stored and the next scorer runs; an exception leaves the literal and
\* answers 500
Scored(f, res) ==
    IF res.t = "ret"
    THEN /\ scores' = (f :> res.v) @@ scores
         /\ fi' = fi + 1
         /\ pc' = IF fi = Len(Factors) THEN "aggregate" ELSE "score"
         /\ UNCHANGED << response, responses >>
    ELSE /\ Return(ErrorResponse(500, "Error calculating scores"))
         /\ UNCHANGED << scores, fi >>

ScoreMacro ==
    /\ pc = "score"
    /\ Factors[fi] = "macro"
    /\ Scored("macro", calculate_macro_score(macro_data))
    /\ faults' = faults \cup
         (IF MacroBody(macro_data).t = "raise" THEN {"macro"} ELSE {})
    /\ UNCHANGED << request, normalized_weights, macro_data, sentiment_data,
                    aggregated_score, historical_prices, task, prediction, rng,
                    fetch_failed, forecast, regulatory_data, news_data, result >>

ScoreSentiment ==
    /\ pc = "score"
    /\ Factors[fi] = "sentiment"
    /\ Scored("sentiment", calculate_sentiment_score(sentiment_data))
    /\ faults' = faults \cup
         (IF SentimentBody(sentiment_data).t = "raise" THEN {"sentiment"} ELSE {})
    /\ UNCHANGED << request, normalized_weights, macro_data, sentiment_data,
                    aggregated_score, historical_prices, task, prediction, rng,
                    fetch_failed, forecast, regulatory_data, news_data, result >>

\* the eleven placeholder scorers: one draw of the generator each
ScoreStub ==
    /\ pc = "score"
    /\ Factors[fi] \in StubFactors
    /\ Scored(Factors[fi], Ret(Uniform(rng)))
    /\ rng' = RngNext(rng)
    /\ UNCHANGED << request, normalized_weights, macro_data, sentiment_data,
                    aggregated_score, historical_prices, task, prediction,
                    fetch_failed, faults, forecast, regulatory_data, news_data,
                    result >>

\* calculate_regulatory_score(): both feeds are fetched and scored
ScoreRegulatory ==
    /\ pc = "score"
    /\ Factors[fi] = "regulatory"
    /\ \E k1 \in FetchKinds, b1 \in FilingBodies \cup {FeedNone},
          k2 \in FetchKinds, b2 \in NewsBodies \cup {FeedNone} :
         LET up1 == Upstream(k1, b1)
             up2 == Upstream(k2, b2)
             rd == fetch_from_backend(up1, FeedNone)
             nd == fetch_from_backend(up2, FeedNone)
         IN /\ k1 = "transport" <=> b1 = FeedNone
            /\ k2 = "transport" <=> b2 = FeedNone
            /\ Scored("regulatory", Ret(calculate_regulatory_score(rd, nd)))
            /\ fetch_failed' = fetch_failed
                 \cup (IF Failed(up1) THEN {"standard_regulatory"} ELSE {})
                 \cup (IF Failed(up2) THEN {"regulatory"} ELSE {})
            /\ faults' = faults \cup
                 (IF RegulatoryTally(rd, nd).fault THEN {"regulatory"} ELSE {})
    /\ UNCHANGED << request, normalized_weights, macro_data, sentiment_data,
                    aggregated_score, historical_prices, task, prediction, rng,
                    forecast, regulatory_data, news_data, result >>

\* lines 131-136
Aggregate ==
    /\ pc = "aggregate"
    /\ aggregated_score' = Aggregated(scores, normalized_weights)
    /\ pc' = "fetch_prices"
    /\ UNCHANGED << request, normalized_weights, macro_data, sentiment_data,
                    scores, fi, historical_prices, task, prediction, response,
                    responses, rng, fetch_failed, faults, forecast,
                    regulatory_data, news_data, result >>

\* lines 139-146: the prices are fetched; an empty frame takes the fallback
FetchPrices ==
    /\ pc = "fetch_prices"
    /\ \E has_key \in BOOLEAN, kind \in FetchKinds, body \in PriceBodies :
         LET up == Upstream(kind, body)
             prices == fetch_historical_prices(has_key, up)
         IN /\ kind = "transport" => body = << >>
            /\ ~has_key => kind = "ok" /\ body = << >>
            /\ historical_prices' = prices
            /\ fetch_failed' = fetch_failed \cup
                 (IF has_key /\ Failed(up) THEN {"prices"} ELSE {})
            /\ IF Len(prices) = 0
               THEN /\ prediction' = FALLBACK
                    /\ forecast' = "empty"
                    /\ pc' = "respond"
               ELSE /\ pc' = "submit"
                    /\ UNCHANGED << prediction, forecast >>
    /\ UNCHANGED << request, normalized_weights, macro_data, sentiment_data,
                    scores, fi, aggregated_score, task, response,
                    responses, rng, faults, regulatory_data,
                    news_data, result >>


\* line 149: predict_price.delay(...) queues the task
SubmitTask ==
    /\ pc = "submit"
    /\ task' = TaskRec("pending", RInt(0))
    /\ pc' = "wait"
    /\ UNCHANGED << request, normalized_weights, macro_data, sentiment_data,
                    scores, fi, aggregated_score, historical_prices, prediction,
                    response, responses, rng, fetch_failed, faults, forecast,
                    regulatory_data, news_data, result >>

\* the forecast stage ends: the prediction is kept and the response is
\* next; an exception no handler of the stage takes reaches line 179
ForecastDone(stage, how) ==
    /\ forecast' = how
    /\ IF stage.t = "ret"
       THEN /\ prediction' = stage.v
            /\ pc' = "respond"
            /\ UNCHANGED << response, responses >>
       ELSE /\ Return(ErrorResponse(500, "Server error"))
            /\ UNCHANGED prediction

\* line 149 raises (the broker cannot be reached): lines 159-161
SubmitFails ==
    /\ pc = "submit"
    /\ ForecastDone(ForecastStage(Raise("OperationalError")), "submit_failed")
    /\ UNCHANGED << request, normalized_weights, macro_data, sentiment_data,
                    scores, fi, aggregated_score, historical_prices, task, rng,
                    fetch_failed, faults, regulatory_data, news_data, result >>

\* a Celery worker runs predict_price on the arguments of the request
TaskRun ==
    /\ task.state = "pending"
    /\ LET res == predict_price(historical_prices, request.horizon,
                                macro_data, sentiment_data)
       IN task' = IF res.t = "ret" THEN TaskRec("success", res.v)
                  ELSE TaskRec("failure", RInt(0))
    /\ UNCHANGED << request, pc, normalized_weights, macro_data, sentiment_data,
                    scores, fi, aggregated_score, historical_prices, prediction,
                    response, responses, rng, fetch_failed, faults, forecast,
                    regulatory_data, news_data, result >>

\* the task fails for a reason outside predict_price (worker lost, result
\* not serializable)
TaskCrash ==
    /\ task.state = "pending"
    /\ task' = TaskRec("failure", RInt(0))
    /\ UNCHANGED << request, pc, normalized_weights, macro_data, sentiment_data,
                    scores, fi, aggregated_score, historical_prices, prediction,
                    response, responses, rng, fetch_failed, faults, forecast,
                    regulatory_data, news_data, result >>

\* line 151: task.get returns the value or raises the task's failure
WaitResult ==
    /\ pc = "wait"
    /\ task.state \in {"success", "failure"}
    /\ ForecastDone(ForecastStage(TaskGet(task)),
                    IF task.state = "failure" THEN "failure"
                    ELSE IF RLe(task.result, RInt(0)) THEN "nonpositive"
                    ELSE "value")
    /\ UNCHANGED << request, normalized_weights, macro_data, sentiment_data,
                    scores, fi, aggregated_score, historical_prices, task, rng,
                    fetch_failed, faults, regulatory_data, news_data, result >>

\* line 151: the 10 s bound passes before the task has finished; the task
\* itself stays queued or running
WaitTimeout ==
    /\ pc = "wait"
    /\ task.state = "pending"
    /\ ForecastDone(ForecastStage(TaskGet(task)), "timeout")
    /\ UNCHANGED << request, normalized_weights, macro_data, sentiment_data,
                    scores, fi, aggregated_score, historical_prices, task, rng,
                    fetch_failed, faults, regulatory_data, news_data, result >>

\* lines 167-175: the response is assembled and returned
Respond ==
    /\ pc = "respond"
    /\ Return(SuccessResponse(aggregated_score, prediction, scores))
    /\ UNCHANGED << request, normalized_weights, macro_data, sentiment_data,
                    scores, fi, aggregated_score, historical_prices, task,
                    prediction, rng, fetch_failed, faults, forecast,
                    regulatory_data, news_data, result >>

Next ==
    \/ Validate
    \/ ProcessWeights
    \/ ValidateToken
    \/ FetchMacro
    \/ FetchSentiment
    \/ ScoreMacro
    \/ ScoreSentiment
    \/ ScoreStub
    \/ ScoreRegulatory
    \/ Aggregate
    \/ FetchPrices
    \/ SubmitTask
    \/ SubmitFails
    \/ TaskRun
    \/ TaskCrash
    \/ WaitResult
    \/ WaitTimeout
    \/ Respond

Spec == Init /\ [][Next]_vars

(***************************************************************************)
(* The scorers called directly on every snapshot and corpus                *)
(***************************************************************************)
\* a corpus holds at most MaxFilings filings and MaxArticles articles
MaxFilings == 2
MaxArticles == 1

LawsuitFiling ==
    Filing("dict", <<"S", "E", "C", " ", "l", "a", "w", "s", "u", "i", "t", " ", "a", "n", "d", " ", "p", "r", "o", "b", "e">>,
           <<"8", "-", "K">>)
AdoptionFiling ==
    Filing("dict", <<"C", "r", "y", "p", "t", "o", " ", "a", "d", "o", "p", "t", "i", "o", "n">>,
           <<"S", "-", "1">>)
BlankFiling == Filing("dict", << >>, <<"1", "0", "-", "Q">>)
BlankArticle == Article("dict", << >>, << >>)
NotAnArticle == Article("notdict", << >>, << >>)

FilingDocs == {EtfFiling, LawsuitFiling, AdoptionFiling, BlankFiling, NotAFiling}
ArticleDocs == {ProbeArticle, BlankArticle, NotAnArticle}

AllFilingFeeds == {FeedNone} \cup {FeedOf(d) : d \in SeqsUpTo(FilingDocs, MaxFilings)}
AllNewsFeeds == {FeedNone} \cup {FeedOf(d) : d \in SeqsUpTo(ArticleDocs, MaxArticles)}

InitMacro ==
    /\ request = Request(TRUE, TRUE, "short", TRUE, "absent", EmptyDict)
    /\ pc = "call_macro"
    /\ rng = 0
    /\ normalized_weights = EmptyDict
    /\ macro_data \in AllMacroSnapshots
    /\ sentiment_data = SentimentNone
    /\ scores = EmptyDict
    /\ fi = 1
    /\ aggregated_score = RInt(0)
    /\ historical_prices = << >>
    /\ task = NoTask
    /\ prediction = RInt(0)
    /\ response = NoResponse
    /\ responses = 0
    /\ fetch_failed = {}
    /\ faults = {}
    /\ forecast = "none"
    /\ regulatory_data = FeedNone
    /\ news_data = FeedNone
    /\ result = Ret(RInt(0))

\* calculate_macro_score(macro_data)
CallMacro ==
    /\ pc = "call_macro"
    /\ result' = calculate_macro_score(macro_data)
    /\ pc' = "called"
    /\ UNCHANGED << request, normalized_weights, macro_data, sentiment_data,
                    scores, fi, aggregated_score, historical_prices, task,
                    prediction, response, responses, rng, fetch_failed, faults,
                    forecast, regulatory_data, news_data >>

SpecMacro == InitMacro /\ [][CallMacro]_vars

InitRegulatory ==
    /\ request = Request(TRUE, TRUE, "short", TRUE, "absent", EmptyDict)
    /\ pc = "call_regulatory"
    /\ rng = 0
    /\ normalized_weights = EmptyDict
    /\ macro_data = MacroNone
    /\ sentiment_data = SentimentNone
    /\ scores = EmptyDict
    /\ fi = 1
    /\ aggregated_score = RInt(0)
    /\ historical_prices = << >>
    /\ task = NoTask
    /\ prediction = RInt(0)
    /\ response = NoResponse
    /\ responses = 0
    /\ fetch_failed = {}
    /\ faults = {}
    /\ forecast = "none"
    /\ regulatory_data \in AllFilingFeeds
    /\ news_data \in AllNewsFeeds
    /\ result = Ret(RInt(0))

\* calculate_regulatory_score() on the corpus the two endpoints returned
CallRegulatory ==
    /\ pc = "call_regulatory"
    /\ result' = Ret(calculate_regulatory_score(regulatory_data, news_data))
    /\ pc' = "called"
    /\ UNCHANGED << request, normalized_weights, macro_data, sentiment_data,
                    scores, fi, aggregated_score, historical_prices, task,
                    prediction, response, responses, rng, fetch_failed, faults,
                    forecast, regulatory_data, news_data >>

SpecRegulatory == InitRegulatory /\ [][CallRegulatory]_vars


(***************************************************************************)
(* predict_price called on its own                                         *)
(***************************************************************************)
\* longest series enumerated price by price
MaxShort == 3
\* most observations placed before the newest WINDOW - 1 or WINDOW ones
MaxOlder == 2

\* the price column holds JSON numbers, positive or not
PriceValues == {-10, 10, 20, 30}

ShortSeries == SeqsUpTo(PriceValues, MaxShort)

\* the i-th of the newest observations: flat, rising, or alternating
Shape(kind, i) ==
    CASE kind = "flat" -> 10
      [] kind = "rising" -> i
      [] OTHER -> IF i % 2 = 1 THEN 30 ELSE 10

\* older observations at one price followed by newer ones of a shape
LongSeriesOf(older, price, newer, kind) ==
    [i \in 1..(older + newer) |->
        IF i <= older THEN price ELSE Shape(kind, i - older)]

LongSeries ==
    {LongSeriesOf(older, price, newer, kind) :
        older \in 0..MaxOlder, price \in PriceValues,
        newer \in {WINDOW - 1, WINDOW}, kind \in {"flat", "rising", "zigzag"}}

AllPriceSeries == ShortSeries \cup LongSeries

\* the macro and sentiment snapshots score_token hands to the task
PredictMacro == MacroBodies
PredictSentiment ==
    {SentimentNone, SentimentNull, SentimentValue(50), SentimentValue(70)}

InitPredict ==
    /\ request \in {Request(TRUE, TRUE, h, TRUE, "absent", EmptyDict) :
                        h \in {"short", "long"}}
    /\ pc = "call_predict"
    /\ rng = 0
    /\ normalized_weights = EmptyDict
    /\ macro_data \in PredictMacro
    /\ sentiment_data \in PredictSentiment
    /\ scores = EmptyDict
    /\ fi = 1
    /\ aggregated_score = RInt(0)
    /\ historical_prices \in AllPriceSeries
    /\ task = NoTask
    /\ prediction = RInt(0)
    /\ response = NoResponse
    /\ responses = 0
    /\ fetch_failed = {}
    /\ faults = {}
    /\ forecast = "none"
    /\ regulatory_data = FeedNone
    /\ news_data = FeedNone
    /\ result = Ret(RInt(0))

CallPredict ==
    /\ pc = "call_predict"
    /\ result' = predict_price(historical_prices, request.horizon,
                               macro_data, sentiment_data)
    /\ pc' = "called"
    /\ UNCHANGED << request, normalized_weights, macro_data, sentiment_data,
                    scores, fi, aggregated_score, historical_prices, task,
                    prediction, response, responses, rng, fetch_failed, faults,
                    forecast, regulatory_data, news_data >>

SpecPredict == InitPredict /\ [][CallPredict]_vars

(***************************************************************************)
(* Properties                                                              *)
(***************************************************************************)
\* the request passes every validation of score_token
ValidRequest ==
    /\ request.has_data
    /\ request.has_horizon
    /\ request.weights_kind # "notdict"
    /\ TotalWeight(WeightsOf(request)) # RInt(0)
    /\ request.token_ok

Feeds == {"macro", "sentiment", "standard_regulatory", "regulatory", "prices"}

\* the forecast could not produce a valid value
ForecastInvalid ==
    forecast \in {"empty", "timeout", "failure", "nonpositive", "submit_failed"}

\* C1: when the request passed validation and scoring and the forecast
\* cannot produce a valid value (empty series, timeout of the wait, failure
\* of the task, value <= 0), the prediction is the fallback 1000.0 and the
\* response, once returned, is a success with price_target = 1000.0; this
\* stays so when the timed-out task finishes afterwards.
C1_ForecastFallback ==
    /\ (Len(historical_prices) = 0 /\ pc \in {"respond", "done"}
            /\ DOMAIN scores = FactorSet)
         => forecast = "empty"
    /\ ForecastInvalid =>
         /\ prediction = FALLBACK
         /\ pc \in {"respond", "done"}
         /\ pc = "done" =>
              /\ response.status = 200
              /\ response.price_target = FALLBACK
    /\ (forecast # "none" /\ pc = "done") => response.status = 200

\* C1 witness: the wait timed out, the response went out with the fallback
\* and the task finished later with a value
C1_Witness ==
    /\ pc = "done"
    /\ forecast = "timeout"
    /\ task.state = "success"
    /\ RGt(task.result, RInt(0))
    /\ response.status = 200
    /\ response.price_target = FALLBACK

\* C2: a fault raised inside a factor scorer does not abort the request:
\* the response is a success, all 14 factors are scored and the faulting
\* factor's score is 0.
C2_ScorerFaultIsolated ==
    (pc = "done" /\ ValidRequest /\ faults # {}) =>
        /\ response.status = 200
        /\ DOMAIN response.factor_scores = FactorSet
        /\ \A f \in faults : response.factor_scores[f] = RInt(0)

\* C3: a failed upstream fetch is absent data and fails no request: its
\* data is None or empty, no scorer faults on it, the factor it feeds
\* scores 0 and the forecast takes the fallback; an error response to a
\* valid request comes from a snapshot that was fetched, never from a
\* failed fetch; with every fetch failed the response is a success with
\* macro, sentiment and regulatory 0 and price_target 1000.0.
C3_FetchFailuresAbsorbed ==
    /\ "macro" \in fetch_failed =>
         /\ macro_data = MacroNone
         /\ "macro" \notin faults
         /\ "macro" \in DOMAIN scores => scores["macro"] = RInt(0)
    /\ "sentiment" \in fetch_failed =>
         /\ sentiment_data = SentimentNone
         /\ "sentiment" \notin faults
         /\ "sentiment" \in DOMAIN scores => scores["sentiment"] = RInt(0)
    /\ {"standard_regulatory", "regulatory"} \subseteq fetch_failed =>
         /\ "regulatory" \notin faults
         /\ "regulatory" \in DOMAIN scores => scores["regulatory"] = RInt(0)
    /\ "prices" \in fetch_failed =>
         /\ historical_prices = << >>
         /\ prediction = FALLBACK
    /\ (pc = "done" /\ ValidRequest /\ response.status # 200) =>
         \E f \in faults \cap {"macro", "sentiment"} : f \notin fetch_failed
    /\ (pc = "done" /\ fetch_failed = Feeds) =>
         /\ response.status = 200
         /\ response.factor_scores["macro"] = RInt(0)
         /\ response.factor_scores["sentiment"] = RInt(0)
         /\ response.factor_scores["regulatory"] = RInt(0)
         /\ response.price_target = FALLBACK

\* C3 witness: every upstream fetch failed and the request succeeded
C3_Witness ==
    /\ pc = "done"
    /\ fetch_failed = Feeds
    /\ response.status = 200
    /\ response.price_target = FALLBACK

\* ProcessWeights has run on a weight map
WeightsProcessed ==
    /\ request.has_data
    /\ request.has_horizon
    /\ request.weights_kind # "notdict"
    /\ pc \notin {"validate", "weights"}

\* C4: once the weights are processed: with total > 0 the normalized
\* weights have exactly the keys of the input map, each equals
\* weight / total, and they sum to 1; with total = 0 the request is
\* answered 400 and no factor is scored and no forecast made.
C4_WeightNormalization ==
    WeightsProcessed =>
        LET w == WeightsOf(request)
            total == RSum(w)
        IN /\ RGt(total, RInt(0)) =>
                /\ DOMAIN normalized_weights = DOMAIN w
                /\ \A k \in DOMAIN w :
                     RMul(normalized_weights[k], total) = w[k]
                /\ RSum(normalized_weights) = RInt(1)
           /\ total = RInt(0) =>
                /\ pc = "done"
                /\ response.status = 400
                /\ scores = EmptyDict
                /\ task = NoTask
                /\ forecast = "none"

\* C4 witness: a caller-supplied map with an unknown key and a negative
\* weight was normalized and the request succeeded
C4_Witness ==
    /\ pc = "done"
    /\ request.weights_kind = "dict"
    /\ request.weights = WeightsMixed
    /\ normalized_weights["sentiment"] = R(-1, 2)
    /\ response.status = 200

\* C5 (as stated): aggregated = 0.8 gives monitor, above 0.8 gives buy,
\* aggregated = 0 gives monitor, a negative aggregated gives avoid.
C5_Original ==
    response.status = 200 =>
        /\ aggregated_score = R(8, 10) => response.recommendation = "monitor"
        /\ RGt(aggregated_score, R(8, 10)) => response.recommendation = "buy"
        /\ aggregated_score = RInt(0) => response.recommendation = "monitor"
        /\ RLt(aggregated_score, RInt(0)) => response.recommendation = "avoid"

\* C5 (amended): aggregated = 0.8 gives monitor, above 0.8 gives buy,
\* aggregated = 0 gives avoid, a negative aggregated gives avoid; monitor
\* is given exactly for 0 < aggregated <= 0.8.
C5_Recommendation ==
    response.status = 200 =>
        /\ aggregated_score = R(8, 10) => response.recommendation = "monitor"
        /\ RGt(aggregated_score, R(8, 10)) => response.recommendation = "buy"
        /\ aggregated_score = RInt(0) => response.recommendation = "avoid"
        /\ RLt(aggregated_score, RInt(0)) => response.recommendation = "avoid"
        /\ response.recommendation = "monitor" <=>
             (RGt(aggregated_score, RInt(0)) /\ RLe(aggregated_score, R(8, 10)))

\* C5 witness: a success response with aggregated = 0
C5_Witness ==
    /\ response.status = 200
    /\ aggregated_score = RInt(0)
    /\ response.recommendation = "avoid"

\* the weighted sum of the factor scores of the response: each score times
\* its weight divided by the total weight, a factor without a weight
\* counting 0
ResponseAggregate ==
    LET w == WeightsOf(request)
        total == TotalWeight(w)
        terms == [i \in 1..Len(Factors) |->
                    IF Factors[i] \in DOMAIN w
                    THEN RMul(response.factor_scores[Factors[i]],
                              RDiv(w[Factors[i]], total))
                    ELSE RInt(0)]
    IN IF total = RInt(0) THEN RInt(0)
       ELSE SumRange(terms, 1, Len(Factors))

\* C6: in a success response risk_score = clamp(2.5 * aggregated, 0, 10)
\* with aggregated the sum of factor_scores[f] times the normalized weight
\* of f, so 0 <= risk_score <= 10; no factor scores aggregate to 0.
C6_RiskScore ==
    /\ response.status = 200 =>
         LET scaled == RMul(ResponseAggregate, R(5, 2))
         IN /\ DOMAIN response.factor_scores = FactorSet
            /\ response.risk_score =
                 (IF RLt(scaled, RInt(0)) THEN RInt(0)
                  ELSE IF RGt(scaled, RInt(10)) THEN RInt(10)
                  ELSE scaled)
            /\ RLe(RInt(0), response.risk_score)
            /\ RLe(response.risk_score, RInt(10))
    /\ Aggregated(EmptyDict, normalized_weights) = RInt(0)

\* C6 witness: aggregated = 10 gives risk_score 10, not 25
C6_Witness ==
    /\ response.status = 200
    /\ ResponseAggregate = RInt(10)
    /\ response.risk_score = RInt(10)

\* C7: the price_target of a success response is strictly positive; a
\* task value <= 0 is replaced by the fallback 1000.0.
C7_PriceTargetPositive ==
    /\ response.status = 200 => RGt(response.price_target, RInt(0))
    /\ (pc \in {"respond", "done"} /\ task.state = "success"
            /\ forecast \in {"value", "nonpositive"}
            /\ RLe(task.result, RInt(0)))
         => prediction = FALLBACK

\* C7 witness: a fear-greed value below -200 made the task return a
\* negative value and the response carries the fallback
C7_Witness ==
    /\ response.status = 200
    /\ sentiment_data = SentimentValue(-450)
    /\ task.state = "success"
    /\ RLt(task.result, RInt(0))
    /\ forecast = "nonpositive"
    /\ response.price_target = FALLBACK

\* the corpus of one filing "ETF approval and clarity" of form 10-K
EtfCorpus ==
    /\ pc = "called"
    /\ regulatory_data = FeedOf(<< EtfFiling >>)
    /\ ~Truthy(news_data)

\* C8 (as stated): on that corpus there are 2 positive and 0 negative
\* hits, filing_score = 1.0 and calculate_regulatory_score returns 2.0.
C8_Original ==
    EtfCorpus =>
        /\ KeywordHits(EtfFiling.description, positive_keywords) = 2
        /\ KeywordHits(EtfFiling.description, negative_keywords) = 0
        /\ FilingScore(EtfFiling) = RInt(1)
        /\ result = Ret(RInt(2))

\* C8 (amended): on that corpus there are 3 positive hits (etf, approval,
\* clarity) and 0 negative hits, filing_score = 1.5 * 3 / 4 = 1.125 and
\* calculate_regulatory_score returns 2.25.
C8_RegulatoryExample ==
    EtfCorpus =>
        /\ KeywordHits(EtfFiling.description, positive_keywords) = 3
        /\ KeywordHits(EtfFiling.description, negative_keywords) = 0
        /\ FilingScore(EtfFiling) = R(9, 8)
        /\ result = Ret(R(9, 4))

\* C8 witness: the scorer has run on that corpus
C8_Witness == EtfCorpus /\ result = Ret(R(9, 4))

\* the snapshot has a latest CPI observation that reads as a number
HasLatestCpi(md) ==
    /\ md.kind = "dict"
    /\ md.has_cpi
    /\ ~md.cpi_null
    /\ Len(md.cpi) > 0
    /\ md.cpi[Len(md.cpi)].kind = "num"

\* C9: calculate_macro_score returns -2 when the latest CPI value is > 5,
\* +2 when it is < 2 and 0 otherwise, and returns 0 whenever there is no
\* latest CPI observation to read (absent or malformed snapshot, empty CPI
\* sequence).
C9_MacroScore ==
    pc = "called" =>
        IF HasLatestCpi(macro_data)
        THEN LET v == macro_data.cpi[Len(macro_data.cpi)].n
             IN result = Ret(RInt(IF v > 5 THEN -2 ELSE IF v < 2 THEN 2 ELSE 0))
        ELSE result = Ret(RInt(0))

\* the handler stands before the aggregation
BeforeAggregate ==
    pc \in {"validate", "weights", "token", "fetch_macro", "fetch_sentiment",
            "score", "aggregate"}

\* what holds of every state of a request
C10_Inv ==
    /\ (~BeforeAggregate /\ response.status \notin {400, 500})
         => DOMAIN scores = FactorSet
    /\ (pc = "respond" \/ response.status = 200) => forecast # "none"
    /\ responses <= 1
    /\ (pc = "done") <=> (responses = 1)
    /\ (response # NoResponse) <=> (responses = 1)

\* what holds of every step of a request
C10_Step ==
    /\ (aggregated_score' # aggregated_score)
         => (pc = "aggregate" /\ DOMAIN scores = FactorSet)
    /\ (responses' # responses)
         => /\ responses = 0
            /\ responses' = 1
            /\ pc' = "done"
            /\ pc # "wait"
            /\ (pc = "score") => (response'.status = 500)
            /\ (response'.status = 200)
                 => (pc = "respond" /\ forecast # "none"
                        /\ DOMAIN scores = FactorSet)
    /\ (responses = 1) => (response' = response /\ pc' = "done")

\* C10: the aggregated score is computed only after all 14 scorers have
\* returned; a success response is assembled only after the forecast stage
\* has ended; a response is returned only by a handler that is not scoring
\* and not waiting; a request gets exactly one response, which nothing
\* replaces afterwards.
C10_StageOrder == [](C10_Inv) /\ [][C10_Step]_vars

\* C10 witness: the wait timed out, the one response went out, and the
\* task finished afterwards
C10_Witness ==
    /\ pc = "done"
    /\ responses = 1
    /\ response.status = 200
    /\ forecast = "timeout"
    /\ task.state = "failure"

\* the number of observations the claim's window holds
C11_WindowSize(n) ==
    IF n <= 30 THEN n ELSE 30

\* the claim's weight of the i-th oldest of m window prices:
\* (1/2 + (i - 1)/(m - 1)) / m, the linear weights summing to m
C11_Weight(m, i) ==
    IF m = 1 THEN RInt(1) ELSE R(m - 1 + 2 * (i - 1), 2 * m * (m - 1))

\* the claim's base_prediction, from the newest min(n, 30) prices only
C11_Base(prices) ==
    LET n == Len(prices)
        m == C11_WindowSize(n)
        terms == [i \in 1..m |-> RMul(RInt(prices[n - m + i]), C11_Weight(m, i))]
    IN SumRange(terms, 1, m)

\* macro and sentiment both score 0, so both factors are 1
C11_Neutral ==
    /\ calculate_macro_score(macro_data) = Ret(RInt(0))
    /\ calculate_sentiment_score(sentiment_data) = Ret(RInt(0))

\* C11: predict_price on an empty series raises; on a non-empty series
\* whose weighted average is positive and with neutral macro and sentiment
\* it returns the average of the newest min(n, 30) prices under weights
\* rising linearly from 0.5 to 1.5 and normalized to sum to 1, whatever the
\* horizon and whatever the observations before the window; prices
\* 10, 20, 30 give 70/3.  A non-positive average raises ValueError.
C11_PredictPrice ==
    pc = "called" =>
        /\ Len(historical_prices) = 0 => result = Raise("ValueError")
        /\ (Len(historical_prices) > 0 /\ C11_Neutral) =>
               LET base == C11_Base(historical_prices)
               IN IF RGt(base, RInt(0)) THEN result = Ret(base)
                  ELSE result = Raise("ValueError")
        /\ (historical_prices = << 10, 20, 30 >> /\ C11_Neutral) =>
               result = Ret(R(70, 3))

\* C11 witness: a series of WINDOW + 1 observations whose oldest price
\* is not the one the window starts with, forecast under the long horizon
\* with neutral macro and sentiment
C11_Witness ==
    /\ pc = "called"
    /\ Len(historical_prices) = WINDOW + 1
    /\ historical_prices[1] = 30
    /\ historical_prices[2] = 1
    /\ historical_prices[WINDOW + 1] = 30
    /\ request.horizon = "long"
    /\ C11_Neutral
    /\ result = Ret(R(6293, 348))


====
